---- MODULE Spec2Model ----
(***************************************************************************)
(* Model of the retrieval-augmented chat pipeline of the Baldur's Gate 3   *)
(* wiki bot: keyword search over the generated JSONL index                 *)
(* (find_matching_wiki_pages.py), rerank parsing, context assembly and the *)
(* interactive query loop (gemini_bg3_rag.py), and the per-user session    *)
(* map of the Discord host (discord_bot.py).                               *)
(*                                                                         *)
(* Text is modelled as a sequence of one-character strings wherever the    *)
(* code looks inside it (titles, keyword terms); weights are hundredths.   *)
(***************************************************************************)
EXTENDS Integers, Sequences, FiniteSets, TLC

VARIABLES
    \* ---- search_documents, run on one index and one query ----
    file_exists,        \* os.path.exists(GENERATED_DATA_FILE)
    index,              \* the lines of GENERATED_DATA_FILE, in file order
    extracted,          \* what extract_keywords(user_query) returned
    result,             \* the list search_documents returned
    raised,             \* TRUE if search_documents ended in an exception
    searched,           \* TRUE once search_documents has ended
    \* ---- parse_reranked_results and get_content_for_answering ----
    candidates,         \* all_local_pages: the documents sent to the reranker
    response,           \* the text of the reranker's answer
    parsed_urls,        \* the list parse_reranked_results returned
    content,            \* the string get_content_for_answering returned
    rstep,              \* "start", "parsed" or "assembled"
    \* ---- the chat handles of the LLM collaborator ----
    host,               \* which program runs: "none", "cli" or "discord"
    histories,          \* histories[h]: the turns recorded by chat handle h
    \* ---- gemini_bg3_rag.py main(): the interactive loop ----
    cli_pc,             \* "off", "input", "guidance", "rerank", "answer",
                        \* "exited" or "crashed"
    chat_session,       \* the handle the loop holds
    user_query,
    local_pages,
    history_snippet,    \* formatted_hist_snippet of the last guidance prompt
    search_log,         \* the calls of search_documents made for this query
    reranked_urls,
    context_for_answering,
    guidance_calls,     \* model.generate_content calls for search guidance
    rerank_calls,       \* model.generate_content calls for re-ranking
    send_calls,         \* chat_session.send_message calls
    queries_asked,      \* queries the loop has taken so far
    cli_out,            \* the last message printed for the user
    \* ---- discord_bot.py: the Discord host ----
    bot_state,          \* "off", "connecting", "online" or "closed"
    user_chat_sessions, \* the map from user id to chat handle, 0 for no entry
    requests,           \* the !ask invocations so far, each with its position
    reset_count,        \* per user, how often new_chat_command removed a session
    \* ---- discord_bot.py: the messages of one reply of ask ----
    response_text,      \* the text the pipeline returned, a sequence of characters
    sent,               \* the messages ctx.send has sent after "Thinking..."
    reply_pc,           \* "off", "returned", "parts" or "done"
    part_i,             \* the loop variable i of line 109
    \* ---- preprocess_keywords_from_wikis.py: the ingest ----
    raw_file,           \* the lines of RAW_DATA_FILE, in file order
    raw_pos,            \* lines of the raw file read so far
    existing_urls,      \* the set of urls the run takes as processed
    ingest_pc           \* "off", "start", "reading", "done" or "failed"

searchVars == <<file_exists, index, extracted, result, raised, searched>>
rerankVars == <<candidates, response, parsed_urls, content, rstep>>

vars == <<file_exists, index, extracted, result, raised, searched,
          candidates, response, parsed_urls, content, rstep,
          host, histories, cli_pc, chat_session, user_query, local_pages,
          history_snippet, search_log, reranked_urls, context_for_answering,
          guidance_calls, rerank_calls, send_calls, queries_asked, cli_out,
          bot_state, user_chat_sessions, requests, reset_count,
          response_text, sent, reply_pc, part_i,
          raw_file, raw_pos, existing_urls, ingest_pc>>

cliVars == <<host, histories, cli_pc, chat_session, user_query, local_pages,
             history_snippet, search_log, reranked_urls, context_for_answering,
             guidance_calls, rerank_calls, send_calls, queries_asked, cli_out>>

botVars == <<bot_state, user_chat_sessions, requests, reset_count,
            response_text, sent, reply_pc, part_i>>

ingestVars == <<raw_file, raw_pos, existing_urls, ingest_pc>>

Users == {"u1", "u2"}

\* the values of the variables of a part of the program that does not run
SearchIdle ==
    /\ file_exists = FALSE
    /\ index = <<>>
    /\ extracted = <<>>
    /\ result = <<>>
    /\ raised = FALSE
    /\ searched = FALSE

RerankIdle ==
    /\ candidates = <<>>
    /\ response = <<>>
    /\ parsed_urls = <<>>
    /\ content = <<>>
    /\ rstep = "start"

CliIdle ==
    /\ host = "none"
    /\ histories = <<>>
    /\ cli_pc = "off"
    /\ chat_session = 0
    /\ user_query = <<>>
    /\ local_pages = <<>>
    /\ history_snippet = <<>>
    /\ search_log = <<>>
    /\ reranked_urls = <<>>
    /\ context_for_answering = <<>>
    /\ guidance_calls = 0
    /\ rerank_calls = 0
    /\ send_calls = 0
    /\ queries_asked = 0
    /\ cli_out = ""

BotIdle ==
    /\ bot_state = "off"
    /\ user_chat_sessions = [u \in Users |-> 0]
    /\ requests = <<>>
    /\ reset_count = [u \in Users |-> 0]
    /\ response_text = <<>>
    /\ sent = <<>>
    /\ reply_pc = "off"
    /\ part_i = 0

IngestIdle ==
    /\ raw_file = <<>>
    /\ raw_pos = 0
    /\ existing_urls = {}
    /\ ingest_pc = "off"

----------------------------------------------------------------------------
(* Bounds *)

MaxDocs == 3            \* lines in the index file
MaxQueryKw == 2         \* keywords the extractor returns for one query
MaxLines == 4           \* lines in the reranker's answer
MaxCandidates == 2      \* documents sent to the reranker
MaxQueries == 2         \* queries one run of the interactive loop takes
MaxSessions == 3        \* chat handles one run creates
MaxRequests == 3        \* !ask commands one run of the bot receives
MaxRaw == 2             \* lines in the raw file of one ingest run

----------------------------------------------------------------------------
(* Characters and strings *)

LowerCase == {"a", "b", "e", "x"}
UpperCase == {"A", "B"}

\* str.lower(), one character
Lower(c) ==
    CASE c = "A" -> "a"
      [] c = "B" -> "b"
      [] OTHER -> c

\* str.lower()
LowerStr(s) == [i \in 1..Len(s) |-> Lower(s[i])]

\* the regex class \w
IsWordChar(c) == c \in LowerCase \cup UpperCase

\* is there a \w character at position p of s (none outside the string)
WordAt(s, p) == p >= 1 /\ p <= Len(s) /\ IsWordChar(s[p])

\* the regex assertion \b between positions p-1 and p of s
WordBoundary(s, p) == WordAt(s, p - 1) # WordAt(s, p)

\* re.search(r'\b' + re.escape(kw) + r'\b', s)
WholeWordSearch(kw, s) ==
    \E i \in 1..(Len(s) - Len(kw) + 1) :
        /\ SubSeq(s, i, i + Len(kw) - 1) = kw
        /\ WordBoundary(s, i)
        /\ WordBoundary(s, i + Len(kw))

----------------------------------------------------------------------------
(* find_matching_wiki_pages.py: constants *)

\* the entries of the blacklist that can be written in the model's alphabet
SEARCH_QUERY_BLACKLIST == { <<"a">>, <<"b", "e">> }

MIN_USER_KEYWORD_LENGTH == 2

\* one item of the extractor's output: usable is the shape test of line 62
QueryItem(usable, term, weight) ==
    [usable |-> usable, term |-> term, weight |-> weight]

\* line 64: the blacklist and minimum-length filter on a lowercased term
KeepQueryKeyword_NoBlacklist(kw) == Len(kw) >= MIN_USER_KEYWORD_LENGTH

KeepQueryKeyword(kw) ==
    /\ kw \notin SEARCH_QUERY_BLACKLIST
    /\ Len(kw) >= MIN_USER_KEYWORD_LENGTH

\* lines 61-63: item[0].lower() is reached only behind the isinstance tests,
\* so no item of the extractor's output makes the loop raise
ItemRaises(item) == FALSE

\* lines 60-67: user_keywords_set_lower
user_keywords_set_lower_CaseKept(items) ==
    { items[i].term :
        i \in { j \in 1..Len(items) :
                  /\ items[j].usable
                  /\ KeepQueryKeyword(LowerStr(items[j].term)) } }

user_keywords_set_lower(items) ==
    { LowerStr(items[i].term) :
        i \in { j \in 1..Len(items) :
                  /\ items[j].usable
                  /\ KeepQueryKeyword(LowerStr(items[j].term)) } }

----------------------------------------------------------------------------
(* One line of the index file *)

\* a keyword entry: shape "pair" is a 2-element list whose first element is
\* a string; numeric says whether float() accepts its second element
KwEntry(shape, term, weight, numeric) ==
    [shape |-> shape, term |-> term, weight |-> weight, numeric |-> numeric]

\* kind of the 'keywords' field: "absent", "list", "nonlist" (a string or
\* null) or "number" (a number other than 0); object says that the line is a
\* JSON object, as every line is that json.dumps wrote from a dict
IndexLine(parses, url, titleIsStr, title, kwKind, kws, text) ==
    [parses |-> parses, object |-> TRUE, url |-> url, titleIsStr |-> titleIsStr,
     title |-> title, kwKind |-> kwKind, keywords |-> kws, text |-> text]

\* lines 85-94: is_title_match
is_title_match(doc, kwset) ==
    \E kw \in kwset : WholeWordSearch(kw, LowerStr(doc.title))

Max2(a, b) == IF a >= b THEN a ELSE b

\* line 104: float(kw_entry[1]) raises ValueError or TypeError
FloatRaises(entry) == ~entry.numeric

\* lines 100-109: the loop over the document's keyword entries, from entry i
\* on; acc is [raised, found, maxw] so far
RECURSIVE ScanKeywords(_, _, _, _)
ScanKeywords(entries, kwset, i, acc) ==
    IF i > Len(entries) THEN acc
    ELSE LET e == entries[i] IN
         IF e.shape # "pair" THEN ScanKeywords(entries, kwset, i + 1, acc)
         ELSE IF FloatRaises(e) THEN [acc EXCEPT !.raised = TRUE]
         ELSE IF LowerStr(e.term) \in kwset
              THEN ScanKeywords(entries, kwset, i + 1,
                       [acc EXCEPT !.found = TRUE,
                                   !.maxw = Max2(acc.maxw, e.weight)])
              ELSE ScanKeywords(entries, kwset, i + 1, acc)

KeywordScan(doc, kwset) ==
    IF doc.kwKind = "list"
    THEN ScanKeywords(doc.keywords, kwset, 1,
                      [raised |-> FALSE, found |-> FALSE, maxw |-> 0])
    ELSE [raised |-> FALSE, found |-> FALSE, maxw |-> 0]

\* line 111: if is_title_match or found_keyword_in_list
IsKept_Always(title_match, found) == TRUE

IsKept(title_match, found) == title_match \/ found

\* lines 80-109: the line raises into one of the except clauses of lines
\* 116-122
LineRaises(doc, kwset) ==
    \/ ~doc.parses                                \* json.JSONDecodeError
    \/ ~doc.object                                \* .get on a non-dict
    \/ ~doc.titleIsStr                            \* .lower() on a non-string
    \/ KeywordScan(doc, kwset).raised             \* TypeError, ValueError

\* lines 80-122, one line of the file: the tuples it appends to
\* potential_matches (none when the line is skipped by an except clause)
LineMatches(doc, kwset) ==
    IF LineRaises(doc, kwset) THEN <<>>
    ELSE LET scan == KeywordScan(doc, kwset) IN
         IF IsKept(is_title_match(doc, kwset), scan.found)
              THEN << [prio |-> IF is_title_match(doc, kwset) THEN 1 ELSE 0,
                       weight |-> IF scan.found THEN scan.maxw ELSE 0,
                       doc |-> doc] >>
              ELSE <<>>

\* lines 75-114: potential_matches after the lines 1..n of the file
RECURSIVE potential_matches(_, _, _)
potential_matches(idx, kwset, n) ==
    IF n = 0 THEN <<>>
    ELSE potential_matches(idx, kwset, n - 1) \o LineMatches(idx[n], kwset)

\* line 128: the sort key (-x[0], -x[1]); a sorts strictly before b
SortsBefore_WeightFirst(a, b) ==
    \/ a.weight > b.weight
    \/ a.weight = b.weight /\ a.prio > b.prio

SortsBefore(a, b) ==
    \/ a.prio > b.prio
    \/ a.prio = b.prio /\ a.weight > b.weight

\* sorted() is stable: m goes after every element that does not sort after it
InsertSorted(s, m) ==
    LET later == { j \in 1..Len(s) : SortsBefore(m, s[j]) }
        pos == IF later = {} THEN Len(s) + 1
               ELSE CHOOSE j \in later : \A k \in later : j <= k
    IN SubSeq(s, 1, pos - 1) \o <<m>> \o SubSeq(s, pos, Len(s))

RECURSIVE sorted_matches(_, _)
sorted_matches(ms, n) ==
    IF n = 0 THEN <<>> ELSE InsertSorted(sorted_matches(ms, n - 1), ms[n])

\* search_documents, lines 40-129
search_documents_NoLineTry(exists, idx, items) ==
    IF ~exists THEN <<>>
    ELSE IF items = <<>> THEN <<>>
    ELSE LET kwset == user_keywords_set_lower(items) IN
         IF kwset = {} THEN <<>>
         ELSE IF \E n \in 1..Len(idx) : LineRaises(idx[n], kwset) THEN <<>>
         ELSE LET ms == potential_matches(idx, kwset, Len(idx))
                  sm == sorted_matches(ms, Len(ms))
              IN [i \in 1..Len(sm) |-> sm[i].doc]

search_documents(exists, idx, items) ==
    IF ~exists THEN <<>>
    ELSE IF items = <<>> THEN <<>>
    ELSE LET kwset == user_keywords_set_lower(items) IN
         IF kwset = {} THEN <<>>
         ELSE LET ms == potential_matches(idx, kwset, Len(idx))
                  sm == sorted_matches(ms, Len(ms))
              IN [i \in 1..Len(sm) |-> sm[i].doc]

----------------------------------------------------------------------------
(* Inputs of the search *)

Str_ax == <<"a", "x">>
Str_Ax == <<"A", "x">>
Str_axe == <<"a", "x", "e">>
Str_bab == <<"b", "a", "b">>
Str_Bab == <<"B", "a", "b">>
Str_be == <<"b", "e">>
Str_x == <<"x">>
Str_ex == <<"e", "x">>
Title_AxBab == <<"A", "x", " ", "B", "a", "b">>
Title_bab_ax == <<"b", "a", "b", "-", "a", "x">>

QueryItems ==
    { QueryItem(TRUE, Str_ax, 60),
      QueryItem(TRUE, Str_Ax, 30),
      QueryItem(TRUE, Str_bab, 40),
      QueryItem(TRUE, Str_be, 70),       \* blacklisted
      QueryItem(TRUE, Str_x, 20),        \* too short
      QueryItem(FALSE, <<>>, 0) }        \* not a (term, weight) pair

RECURSIVE SeqsUpTo(_, _)
SeqsUpTo(S, n) ==
    IF n = 0 THEN { <<>> }
    ELSE LET shorter == SeqsUpTo(S, n - 1) IN
         shorter \cup { Append(s, x) : s \in { t \in shorter : Len(t) = n - 1 }, x \in S }

ExtractorOutputs == SeqsUpTo(QueryItems, MaxQueryKw)

DocTitleOnly ==
    IndexLine(TRUE, "http://w/a", TRUE, Title_AxBab, "absent", <<>>, "text a")
DocKeywordOnly ==
    IndexLine(TRUE, "http://w/b", TRUE, Str_axe, "list",
              << KwEntry("pair", Str_ax, 90, TRUE) >>, "the gate was blocked")
DocBadWeight ==
    IndexLine(TRUE, "http://w/c", TRUE, Title_bab_ax, "list",
              << KwEntry("pair", Str_Bab, 50, TRUE),
                 KwEntry("pair", Str_axe, 0, FALSE) >>, "text c")
DocNegativeWeight ==
    IndexLine(TRUE, "http://w/d", TRUE, Str_be, "list",
              << KwEntry("pair", Str_ax, -20, TRUE) >>, "")
DocUnparseable ==
    IndexLine(FALSE, "", FALSE, <<>>, "absent", <<>>, "")
DocNonListKeywords ==
    IndexLine(TRUE, "http://w/e", TRUE, Title_bab_ax, "nonlist", <<>>, "text e")
DocBadShape ==
    IndexLine(TRUE, "http://w/f", TRUE, Str_axe, "list",
              << KwEntry("other", <<>>, 0, FALSE),
                 KwEntry("pair", Str_bab, 50, TRUE),
                 KwEntry("pair", Str_Ax, -10, TRUE) >>, "text f")
DocTitleNotString ==
    IndexLine(TRUE, "http://w/g", FALSE, <<>>, "list",
              << KwEntry("pair", Str_ax, 90, TRUE) >>, "text g")

IndexLines ==
    { DocTitleOnly, DocKeywordOnly, DocBadWeight, DocNegativeWeight,
      DocUnparseable, DocNonListKeywords, DocBadShape, DocTitleNotString }

IndexFiles == SeqsUpTo(IndexLines, MaxDocs)

----------------------------------------------------------------------------
(* SpecSearch: one call of search_documents on any index and any query *)

InitSearch ==
    /\ \/ file_exists = TRUE /\ index \in IndexFiles
       \/ file_exists = FALSE /\ index = <<>>
    /\ extracted \in ExtractorOutputs
    /\ result = <<>>
    /\ raised = FALSE
    /\ searched = FALSE
    /\ RerankIdle
    /\ CliIdle
    /\ BotIdle
    /\ IngestIdle

\* an exception leaves search_documents: only the filter loop of lines 60-65
\* runs outside a try block
SearchRaises(exists, items) ==
    exists /\ \E i \in 1..Len(items) : ItemRaises(items[i])

Search ==
    /\ ~searched
    /\ raised' = SearchRaises(file_exists, extracted)
    /\ result' = IF raised' THEN <<>>
                 ELSE search_documents(file_exists, index, extracted)
    /\ searched' = TRUE
    /\ UNCHANGED <<file_exists, index, extracted>>
    /\ UNCHANGED <<rerankVars, cliVars, botVars, ingestVars>>

NextSearch == Search

SpecSearch == InitSearch /\ [][NextSearch]_vars

----------------------------------------------------------------------------
(* preprocess_keywords_from_wikis.py: the ingest that writes the index     *)
(*                                                                         *)
(* A text is identified with what extract_keywords makes of it, as a query *)
(* is: the same text gives the same extractor output at ingest and at      *)
(* search.                                                                 *)

\* one line of the raw file; fails says that extract_keywords raises on the
\* text, kws is what it returns otherwise
RawLine(parses, url, title, fails, kws, text) ==
    [parses |-> parses, url |-> url, title |-> title, fails |-> fails,
     kws |-> kws, text |-> text]

\* lines 79-85: the 'keywords' value of the processed entry is the
\* extractor's output as it is; json.dumps writes a (term, weight) tuple as
\* a two-element list
StoredKeywords_QueryFiltered(items) ==
    LET kept == SelectSeq(items, LAMBDA it :
                    it.usable /\ KeepQueryKeyword(LowerStr(it.term)))
    IN [i \in 1..Len(kept) |->
           KwEntry("pair", LowerStr(kept[i].term), kept[i].weight, TRUE)]

StoredKeywords(items) ==
    [i \in 1..Len(items) |->
        IF items[i].usable
        THEN KwEntry("pair", items[i].term, items[i].weight, TRUE)
        ELSE KwEntry("other", <<>>, 0, FALSE)]

\* lines 82-87
processed_entry(raw) ==
    IndexLine(TRUE, raw.url, TRUE, raw.title, "list",
              StoredKeywords(raw.kws), raw.text)

\* lines 18-29: the lines read before the loop ends; a line that is not JSON
\* is skipped inside the loop (lines 26-27), any other exception ends the
\* loop in the except clause of line 28 and the urls found so far are
\* returned.  'url' in entry (line 24) raises TypeError when the line is
\* valid JSON but no object (null, a number)
LinesLoaded(idx) ==
    LET bad == { m \in 1..Len(idx) : idx[m].parses /\ ~idx[m].object }
    IN IF bad = {} THEN Len(idx)
       ELSE (CHOOSE m \in bad : \A k \in bad : m <= k) - 1

\* load_existing_urls, lines 10-30
load_existing_urls(exists, idx) ==
    IF ~exists THEN {}
    ELSE { idx[n].url :
             n \in { m \in 1..LinesLoaded(idx) : idx[m].parses /\ idx[m].object } }

\* lines 58-97: is a processed entry written for this raw line
IsWritten(raw, urls) ==
    /\ raw.parses
    /\ raw.url # ""
    /\ raw.url \notin urls
    /\ ~raw.fails

Str_Be == <<"B", "e">>

RawLines ==
    { RawLine(TRUE, "http://w/r1", Str_axe, FALSE,
              << QueryItem(TRUE, Str_ax, 60), QueryItem(TRUE, Str_be, 70) >>, "raw 1"),
      RawLine(TRUE, "http://w/r2", Str_bab, FALSE,
              << QueryItem(TRUE, Str_Bab, 40), QueryItem(TRUE, Str_x, 20) >>, "raw 2"),
      RawLine(TRUE, "http://w/r3", Str_ex, FALSE,
              << QueryItem(TRUE, Str_Be, 70), QueryItem(FALSE, <<>>, 0) >>, "raw 3"),
      RawLine(TRUE, "http://w/b", Str_axe, FALSE,
              << QueryItem(TRUE, Str_ax, 60) >>, "raw 4"),   \* url of DocKeywordOnly
      RawLine(TRUE, "http://w/r1", Str_bab, FALSE,
              << QueryItem(TRUE, Str_bab, 40) >>, "raw 5"),  \* url of "raw 1"
      RawLine(TRUE, "", Str_axe, FALSE, <<>>, "raw 6"),      \* no url
      RawLine(TRUE, "http://w/r7", Str_axe, TRUE, <<>>, "raw 7"),
      RawLine(FALSE, "", <<>>, FALSE, <<>>, "") }            \* not JSON

RawFiles == SeqsUpTo(RawLines, MaxRaw)

\* a line of the generated file that is valid JSON but no object: null
DocNotObject ==
    [IndexLine(TRUE, "", FALSE, <<>>, "absent", <<>>, "") EXCEPT !.object = FALSE]

\* the generated file a run finds: none, the output of an earlier run, or
\* such a file with a damaged or foreign line in it; no url occurs twice
GeneratedFiles ==
    { <<>>, << DocKeywordOnly >>, << DocUnparseable, DocTitleOnly >>,
      << DocNotObject, DocKeywordOnly >> }

InitIngest ==
    /\ raw_file \in RawFiles
    /\ \/ file_exists = TRUE /\ index \in GeneratedFiles
       \/ file_exists = FALSE /\ index = <<>>
    /\ raw_pos = 0
    /\ existing_urls = {}
    /\ ingest_pc = "start"
    /\ extracted = <<>>
    /\ result = <<>>
    /\ raised = FALSE
    /\ searched = FALSE
    /\ RerankIdle
    /\ CliIdle
    /\ BotIdle

\* lines 39-55: the urls of the generated file are loaded and both files are
\* opened; opening for append creates the generated file.  Without the raw
\* file the run ends (lines 99-102)
LoadExisting(found) ==
    /\ ingest_pc = "start"
    /\ existing_urls' = load_existing_urls(file_exists, index)
    /\ ingest_pc' = IF found THEN "reading" ELSE "failed"
    /\ file_exists' = (file_exists \/ found)
    /\ UNCHANGED <<index, extracted, result, raised, searched, raw_file, raw_pos>>
    /\ UNCHANGED <<rerankVars, cliVars, botVars>>

\* lines 57-97: one line of the raw file
PreprocessLine ==
    /\ ingest_pc = "reading"
    /\ raw_pos < Len(raw_file)
    /\ raw_pos' = raw_pos + 1
    /\ LET raw == raw_file[raw_pos + 1] IN
       IF IsWritten(raw, existing_urls)
       THEN /\ index' = Append(index, processed_entry(raw))
            /\ existing_urls' = existing_urls \cup { raw.url }
       ELSE UNCHANGED <<index, existing_urls>>
    /\ UNCHANGED <<file_exists, extracted, result, raised, searched,
                   raw_file, ingest_pc>>
    /\ UNCHANGED <<rerankVars, cliVars, botVars>>

\* lines 107-110: the raw file is read to its end
FinishIngest ==
    /\ ingest_pc = "reading"
    /\ raw_pos = Len(raw_file)
    /\ ingest_pc' = "done"
    /\ UNCHANGED <<searchVars, raw_file, raw_pos, existing_urls>>
    /\ UNCHANGED <<rerankVars, cliVars, botVars>>

\* preprocess_jsonl is run again on the same raw file (lines 113-114, the
\* script is started once more); the generated file is what the runs before
\* left
StartNextRun ==
    /\ ingest_pc = "done"
    /\ ~searched
    /\ Len(index) <= MaxDocs
    /\ ingest_pc' = "start"
    /\ raw_pos' = 0
    /\ existing_urls' = {}
    /\ UNCHANGED <<searchVars, raw_file>>
    /\ UNCHANGED <<rerankVars, cliVars, botVars>>

\* search_documents on the generated file, with the text of raw line n as
\* the query
QuerySameText(n) ==
    /\ ingest_pc = "done"
    /\ ~searched
    /\ n \in 1..Len(raw_file)
    /\ raw_file[n].parses /\ ~raw_file[n].fails
    /\ extracted' = raw_file[n].kws
    /\ raised' = SearchRaises(file_exists, extracted')
    /\ result' = IF raised' THEN <<>>
                 ELSE search_documents(file_exists, index, extracted')
    /\ searched' = TRUE
    /\ UNCHANGED <<file_exists, index>>
    /\ UNCHANGED <<rerankVars, cliVars, botVars, ingestVars>>

NextIngest ==
    \/ \E found \in BOOLEAN : LoadExisting(found)
    \/ PreprocessLine
    \/ FinishIngest
    \/ StartNextRun
    \/ \E n \in 1..MaxRaw : QuerySameText(n)

SpecIngest == InitIngest /\ [][NextIngest]_vars

----------------------------------------------------------------------------
(* gemini_bg3_rag.py: parse_reranked_results                               *)
(*                                                                         *)
(* The response text is a sequence of tokens: each token is a run of       *)
(* non-whitespace characters, a blank " " or a newline "\n".               *)

MAX_PAGES_FOR_ANSWERING == 3

\* the regex class \s
IsSpace(t) == t \in {" ", "\n"}

\* the token is "URL:" in some casing (re.IGNORECASE)
IsUrlLabel(t) == t \in {"URL:", "url:", "Url:"}

\* the token starts with http:// or https:// and has a character after it
IsHttpUrl(t) ==
    t \in {"http://w/a", "http://w/b", "https://w/b", "http://w/d", "http://w/z"}

\* ^ under re.MULTILINE: the start of the text or just after a newline
AtLineStart(text, p) == p = 1 \/ text[p - 1] = "\n"

\* \s*: the first position from p on that holds no whitespace
RECURSIVE SkipSpace(_, _)
SkipSpace(text, p) ==
    IF p <= Len(text) /\ IsSpace(text[p]) THEN SkipSpace(text, p + 1) ELSE p

\* [^\s]+: the last position of the run of non-whitespace tokens from p on
RECURSIVE RunEnd(_, _)
RunEnd(text, p) ==
    IF p + 1 <= Len(text) /\ ~IsSpace(text[p + 1]) THEN RunEnd(text, p + 1) ELSE p

RECURSIVE Glue(_, _, _)
Glue(text, p, q) == IF p > q THEN "" ELSE text[p] \o Glue(text, p + 1, q)

\* the regex of line 99 tried at position p: [ok, url, last]
MatchAt(text, p) ==
    LET l == SkipSpace(text, p)
        u == SkipSpace(text, l + 1)
    IN IF /\ AtLineStart(text, p)
          /\ l <= Len(text) /\ IsUrlLabel(text[l])
          /\ u <= Len(text) /\ IsHttpUrl(text[u])
       THEN [ok |-> TRUE, url |-> Glue(text, u, RunEnd(text, u)),
             last |-> RunEnd(text, u)]
       ELSE [ok |-> FALSE, url |-> "", last |-> p]

\* url_pattern.findall from position p on: non-overlapping, left to right
RECURSIVE FindAll(_, _)
FindAll(text, p) ==
    IF p > Len(text) THEN <<>>
    ELSE LET m == MatchAt(text, p) IN
         IF m.ok THEN <<m.url>> \o FindAll(text, m.last + 1)
         ELSE FindAll(text, p + 1)

\* parse_reranked_results, lines 96-103
parse_reranked_results(text) == FindAll(text, 1)

----------------------------------------------------------------------------
(* gemini_bg3_rag.py: get_content_for_answering                            *)
(*                                                                         *)
(* A string built by the pipeline is a sequence of blocks; the empty       *)
(* string is the empty sequence.                                           *)

Literal(t) == << [kind |-> "literal", title |-> <<>>, url |-> "", text |-> t] >>

NoRerankedUrlsMessage ==
    Literal("No specific documents were identified as relevant by the re-ranking step for the current query.")
NoContentMessage ==
    Literal("No content could be retrieved for the top re-ranked pages.")

\* lines 122-123 and line 125
ContextBlock(doc, target_url) ==
    << [kind |-> "context", title |-> doc.title, url |-> target_url, text |-> doc.text] >>
NoTextBlock(doc, target_url) ==
    << [kind |-> "notext", title |-> doc.title, url |-> target_url, text |-> ""] >>

\* reranked_urls[:MAX_PAGES_FOR_ANSWERING]
FirstUrls_All(urls) == urls

FirstUrls(urls) ==
    SubSeq(urls, 1, IF Len(urls) < MAX_PAGES_FOR_ANSWERING THEN Len(urls)
                    ELSE MAX_PAGES_FOR_ANSWERING)

\* lines 113-117: the first page whose url equals target_url, 0 if none
FindDoc_AnyPage(pages, target_url) == IF pages = <<>> THEN 0 ELSE 1

FindDoc(pages, target_url) ==
    LET hits == { j \in 1..Len(pages) : pages[j].url = target_url } IN
    IF hits = {} THEN 0 ELSE CHOOSE j \in hits : \A k \in hits : j <= k

\* lines 118-125: what one target url appends to content_to_provide
BlockFor(pages, target_url) ==
    LET j == FindDoc(pages, target_url) IN
    IF j = 0 THEN <<>>
    ELSE IF pages[j].text # "" THEN ContextBlock(pages[j], target_url)
    ELSE NoTextBlock(pages[j], target_url)

\* lines 112-127 over the urls 1..n: [content_to_provide, pages_found]
RECURSIVE CollectContent(_, _, _)
CollectContent(urls, pages, n) ==
    IF n = 0 THEN [content |-> <<>>, pages_found |-> 0]
    ELSE LET before == CollectContent(urls, pages, n - 1) IN
         [content |-> before.content \o BlockFor(pages, urls[n]),
          pages_found |-> before.pages_found
                          + (IF FindDoc(pages, urls[n]) # 0 THEN 1 ELSE 0)]

\* line 128-129: the answer when no page was found
NoPagesFound_Empty(collected) == collected.content

NoPagesFound(collected) == NoContentMessage

\* get_content_for_answering, lines 106-130
get_content_for_answering(urls, pages) ==
    IF urls = <<>> THEN NoRerankedUrlsMessage
    ELSE LET first == FirstUrls(urls)
             collected == CollectContent(first, pages, Len(first))
         IN IF collected.pages_found = 0 THEN NoPagesFound(collected)
            ELSE collected.content

----------------------------------------------------------------------------
(* Inputs of the rerank parsing and the context assembly *)

ResponseLines ==
    { <<"URL:", " ", "http://w/a">>,
      <<" ", " ", "url:", " ", "https://w/b">>,
      <<"URL", " ", "http://w/a">>,              \* no colon
      <<"URL:", " ", "http://w/z">>,             \* not a url of any document
      <<"Url:">>,                                \* the url is on the next line
      <<"http://w/b">> }

\* the lines joined by newlines
RECURSIVE JoinLines(_, _)
JoinLines(ls, n) ==
    IF n = 0 THEN <<>>
    ELSE IF n = 1 THEN ls[1]
    ELSE JoinLines(ls, n - 1) \o <<"\n">> \o ls[n]

ResponseTexts == { JoinLines(ls, Len(ls)) : ls \in SeqsUpTo(ResponseLines, MaxLines) }

PageA == IndexLine(TRUE, "http://w/a", TRUE, Title_AxBab, "absent", <<>>, "text a")
PageB == IndexLine(TRUE, "https://w/b", TRUE, Str_axe, "absent", <<>>, "")
PageB2 == IndexLine(TRUE, "https://w/b", TRUE, Str_be, "absent", <<>>, "text b2")

CandidatePages == { PageA, PageB, PageB2 }

\* the reranker is only asked about a non-empty list (line 283)
CandidateLists == SeqsUpTo(CandidatePages, MaxCandidates) \ { <<>> }

UrlsOf(pages) == { pages[j].url : j \in 1..Len(pages) }

----------------------------------------------------------------------------
(* SpecRerank: parse_reranked_results on any response, then                *)
(* get_content_for_answering on what it returned                           *)

InitRerank ==
    /\ candidates \in CandidateLists
    /\ response \in ResponseTexts
    /\ parsed_urls = <<>>
    /\ content = <<>>
    /\ rstep = "start"
    /\ SearchIdle
    /\ CliIdle
    /\ BotIdle
    /\ IngestIdle

Parse ==
    /\ rstep = "start"
    /\ parsed_urls' = parse_reranked_results(response)
    /\ rstep' = "parsed"
    /\ UNCHANGED <<candidates, response, content>>
    /\ UNCHANGED <<searchVars, cliVars, botVars, ingestVars>>

Assemble ==
    /\ rstep = "parsed"
    /\ content' = get_content_for_answering(parsed_urls, candidates)
    /\ rstep' = "assembled"
    /\ UNCHANGED <<candidates, response, parsed_urls>>
    /\ UNCHANGED <<searchVars, cliVars, botVars, ingestVars>>

NextRerank == Parse \/ Assemble

SpecRerank == InitRerank /\ [][NextRerank]_vars

----------------------------------------------------------------------------
(* gemini_bg3_rag.py: helpers of the pipeline *)

NUM_HISTORY_TURNS_FOR_GUIDANCE == 4

\* a query string: blank when nothing is left of it after strip(); kws is
\* what extract_keywords makes of it
QueryString(kws) == [blank |-> FALSE, kws |-> kws]
EmptyString == [blank |-> TRUE, kws |-> <<>>]

\* one Content object of a chat history; text names the query it belongs to
Turn(role, text) == [role |-> role, text |-> text]

NoPriorHistoryMessage == Literal("No prior conversation history.")

\* line 32: role.capitalize()
Capitalize(role) == IF role = "user" THEN "User" ELSE "Model"

\* history[-num_turns:]
LastTurns(history, num_turns) ==
    SubSeq(history,
           IF Len(history) > num_turns THEN Len(history) - num_turns + 1 ELSE 1,
           Len(history))

\* format_chat_history_snippet, lines 20-44
format_chat_history_snippet(history, num_turns) ==
    IF history = <<>> THEN NoPriorHistoryMessage
    ELSE LET relevant == LastTurns(history, num_turns) IN
         Literal("Recent Conversation Snippet:")
         \o [i \in 1..Len(relevant) |->
                [kind |-> "turn", title |-> <<>>,
                 url |-> Capitalize(relevant[i].role), text |-> relevant[i].text]]

\* the context strings of lines 285-329
NoLocalPagesMessage ==
    Literal("No specific documents were found in the local knowledge base for your current query, even after attempting to refine the search.")
RerankBlockedMessage == Literal("Re-ranking of local documents was blocked.")
NoUrlsParsedMessage == Literal("Gemini did not identify relevant pages from local search.")
RerankNoPartsMessage == Literal("Re-ranking process did not yield specific pages.")
RerankErrorMessage == Literal("Error during document re-ranking.")
NoNewContextMessage ==
    Literal("No specific new context could be provided for your current query.")

\* the literals above that contain one of the markers of lines 334-335
MarkerLiterals ==
    { NoRerankedUrlsMessage[1].text, NoContentMessage[1].text,
      NoLocalPagesMessage[1].text, RerankBlockedMessage[1].text,
      NoUrlsParsedMessage[1].text, RerankNoPartsMessage[1].text,
      RerankErrorMessage[1].text, NoNewContextMessage[1].text }

\* page texts of the model that contain a marker
TextsWithMarker == { "the gate was blocked" }

\* lines 333-335: any(msg in context_for_answering for msg in [...])
HasMarker(ctx) ==
    \E i \in 1..Len(ctx) :
        \/ ctx[i].kind = "literal" /\ ctx[i].text \in MarkerLiterals
        \/ ctx[i].kind = "context" /\ ctx[i].text \in TextsWithMarker

\* lines 331-341: the consolidated check
ConsolidateContext_MarkerReplaces(ctx) ==
    IF ctx # <<>> /\ ~HasMarker(ctx) THEN ctx
    ELSE NoNewContextMessage

ConsolidateContext(ctx) ==
    IF ctx # <<>> /\ ~HasMarker(ctx) THEN ctx
    ELSE IF ctx # <<>> THEN ctx
    ELSE NoNewContextMessage

\* a response of the collaborator: the call raised, or it returned an object
\* with a block reason, with parts, with both or with neither
LlmResponse(raises, block_reason, parts, text) ==
    [raises |-> raises, block_reason |-> block_reason, parts |-> parts, text |-> text]

\* lines 261-269: suggested_query
SuggestedQuery_BlockIgnored(resp) ==
    IF resp.parts THEN resp.text ELSE EmptyString

SuggestedQuery(resp) ==
    IF resp.block_reason THEN EmptyString
    ELSE IF resp.parts THEN resp.text
    ELSE EmptyString

\* lines 258-279: is search_documents called with the suggestion
SearchesAgain_Always(resp) == TRUE

SearchesAgain(resp) == ~resp.raises /\ ~SuggestedQuery(resp).blank

\* format_local_results_for_rerank_prompt, lines 55-58, called at line 290
\* outside every try block: a 'keywords' value that is true and cannot be
\* sliced raises TypeError
RerankPromptRaises(pages) ==
    \E i \in 1..Len(pages) : pages[i].kwKind = "number"

\* lines 299-329: [reranked_urls, context_for_answering] after the rerank call
RerankStep(resp, pages) ==
    IF resp.raises THEN [urls |-> <<>>, ctx |-> RerankErrorMessage]
    ELSE IF resp.block_reason THEN [urls |-> <<>>, ctx |-> RerankBlockedMessage]
    ELSE IF resp.parts
         THEN LET parsed == parse_reranked_results(resp.text) IN
              IF parsed = <<>> THEN [urls |-> <<>>, ctx |-> NoUrlsParsedMessage]
              ELSE [urls |-> parsed, ctx |-> get_content_for_answering(parsed, pages)]
    ELSE [urls |-> <<>>, ctx |-> RerankNoPartsMessage]

\* lines 357-371: what the loop prints for the answer call
AnswerOutput_PartsFirst(resp) ==
    IF resp.raises THEN "An error during Gemini answering"
    ELSE IF resp.parts THEN resp.text
    ELSE IF resp.block_reason THEN "Answering blocked"
    ELSE "No text in final answer response and not blocked (unexpected)."

AnswerOutput(resp) ==
    IF resp.raises THEN "An error during Gemini answering"
    ELSE IF resp.block_reason THEN "Answering blocked"
    ELSE IF resp.parts THEN resp.text
    ELSE "No text in final answer response and not blocked (unexpected)."

\* lines 357-371: where the loop is after the answer call: the except clause
\* catches every Exception, so the while loop goes on
AfterAnswer_NoExcept(resp) == IF resp.raises THEN "exited" ELSE "input"

AfterAnswer(resp) == "input"

\* ChatSession.send_message records the prompt and the reply when it returns
\* a reply
RecordTurns_ClearedOnError(history, resp, tag) ==
    IF resp.raises THEN <<>>
    ELSE IF ~resp.block_reason /\ resp.parts
    THEN history \o << Turn("user", tag), Turn("model", tag) >>
    ELSE history

RecordTurns(history, resp, tag) ==
    IF ~resp.raises /\ ~resp.block_reason /\ resp.parts
    THEN history \o << Turn("user", tag), Turn("model", tag) >>
    ELSE history

----------------------------------------------------------------------------
(* Inputs of the interactive loop *)

\* a line whose 'keywords' field is a number
DocNumberKeywords ==
    IndexLine(TRUE, "http://w/n", TRUE, Str_bab, "number", <<>>, "text n")

KnowledgeBase ==
    << DocKeywordOnly, DocTitleOnly, DocNegativeWeight, DocNumberKeywords >>

UserQueries ==
    { QueryString(<<>>),                               \* no keyword extracted
      QueryString(<< QueryItem(TRUE, Str_be, 70) >>),  \* only a stop word
      QueryString(<< QueryItem(TRUE, Str_ex, 50) >>),  \* matches no page
      QueryString(<< QueryItem(TRUE, Str_ax, 60) >>),
      QueryString(<< QueryItem(TRUE, Str_bab, 40) >>) }

Raised == LlmResponse(TRUE, FALSE, FALSE, "")

GuidanceResponses ==
    { LlmResponse(TRUE, FALSE, FALSE, EmptyString),
      LlmResponse(FALSE, TRUE, FALSE, EmptyString),
      LlmResponse(FALSE, FALSE, FALSE, EmptyString),
      LlmResponse(FALSE, FALSE, TRUE, EmptyString) }
    \cup { LlmResponse(FALSE, b, TRUE, q) : b \in BOOLEAN, q \in UserQueries }

RerankTexts ==
    { <<"None", " ", "relevant">>,
      <<"URL:", " ", "http://w/a">>,
      <<"URL:", " ", "http://w/z", "\n", "URL:", " ", "http://w/b">>,
      <<"URL:", " ", "http://w/z">> }

RerankResponses ==
    { LlmResponse(TRUE, FALSE, FALSE, <<>>),
      LlmResponse(FALSE, TRUE, FALSE, <<>>),
      LlmResponse(FALSE, FALSE, FALSE, <<>>) }
    \cup { LlmResponse(FALSE, b, TRUE, t) : b \in BOOLEAN, t \in RerankTexts }

AnswerResponses ==
    { Raised,
      LlmResponse(FALSE, TRUE, FALSE, ""),
      LlmResponse(FALSE, TRUE, TRUE, "answer"),
      LlmResponse(FALSE, FALSE, TRUE, "answer"),
      LlmResponse(FALSE, FALSE, FALSE, "") }

----------------------------------------------------------------------------
(* gemini_bg3_rag.py main(): the interactive loop, lines 211-373 *)

\* the history a new handle starts with: start_chat(history=[]), whatever
\* the handle before it had recorded
NewHistory_Carried(old) == old

NewHistory(old) == <<>>

\* model.start_chat(history=[]): a new handle
StartChat(old) ==
    /\ Len(histories) < MaxSessions
    /\ histories' = Append(histories, NewHistory(old))

InitCli ==
    /\ host = "cli"
    /\ file_exists = TRUE
    /\ index = KnowledgeBase
    /\ extracted = <<>>
    /\ result = <<>>
    /\ raised = FALSE
    /\ searched = FALSE
    /\ RerankIdle
    /\ histories = << <<>> >>        \* line 211
    /\ chat_session = 1
    /\ cli_pc = "input"
    /\ user_query = <<>>
    /\ local_pages = <<>>
    /\ history_snippet = <<>>
    /\ search_log = <<>>
    /\ reranked_urls = <<>>
    /\ context_for_answering = <<>>
    /\ guidance_calls = 0
    /\ rerank_calls = 0
    /\ send_calls = 0
    /\ queries_asked = 0
    /\ cli_out = ""
    /\ BotIdle
    /\ IngestIdle

\* lines 282-301 and 331-358 from the point where local_pages is final: with
\* no page the answer prompt is sent at once, else the rerank prompt is built
\* and sent; an exception of line 290 leaves main()
AfterRetrieval(pages) ==
    IF pages = <<>>
    THEN /\ context_for_answering' = ConsolidateContext(NoLocalPagesMessage)
         /\ send_calls' = send_calls + 1
         /\ rerank_calls' = rerank_calls
         /\ cli_pc' = "answer"
    ELSE IF RerankPromptRaises(pages)
    THEN /\ context_for_answering' = <<>>
         /\ rerank_calls' = rerank_calls
         /\ send_calls' = send_calls
         /\ cli_pc' = "crashed"
    ELSE /\ context_for_answering' = <<>>
         /\ rerank_calls' = rerank_calls + 1
         /\ send_calls' = send_calls
         /\ cli_pc' = "rerank"

\* lines 222: 'quit', 'exit', and the EOF and interrupt exits of lines 217-220
CliQuit ==
    /\ host = "cli" /\ cli_pc = "input"
    /\ cli_pc' = "exited"
    /\ cli_out' = "Exiting"
    /\ UNCHANGED <<histories, chat_session, user_query, local_pages,
                   history_snippet, search_log, reranked_urls,
                   context_for_answering, guidance_calls, rerank_calls,
                   send_calls, queries_asked, host>>
    /\ UNCHANGED <<searchVars, rerankVars, botVars, ingestVars>>

\* lines 223-226: '/new'
CliNew ==
    /\ host = "cli" /\ cli_pc = "input"
    /\ StartChat(histories[chat_session])
    /\ chat_session' = Len(histories) + 1
    /\ cli_out' = "--- New chat session started. ---"
    /\ UNCHANGED <<cli_pc, user_query, local_pages,
                   history_snippet, search_log, reranked_urls,
                   context_for_answering, guidance_calls, rerank_calls,
                   send_calls, queries_asked, host>>
    /\ UNCHANGED <<searchVars, rerankVars, botVars, ingestVars>>

\* line 227: a query that is empty after strip()
CliBlankQuery ==
    /\ host = "cli" /\ cli_pc = "input"
    /\ cli_out # "Query cannot be empty."
    /\ cli_out' = "Query cannot be empty."
    /\ UNCHANGED <<histories, chat_session, cli_pc, user_query, local_pages,
                   history_snippet, search_log, reranked_urls,
                   context_for_answering, guidance_calls, rerank_calls,
                   send_calls, queries_asked, host>>
    /\ UNCHANGED <<searchVars, rerankVars, botVars, ingestVars>>

\* lines 229-259 or 229-301: a query is read and searched; with no page the
\* guidance prompt is built and sent
CliQuery(q) ==
    /\ host = "cli" /\ cli_pc = "input"
    /\ queries_asked < MaxQueries
    /\ queries_asked' = queries_asked + 1
    /\ user_query' = q
    /\ LET pages == search_documents(file_exists, index, q.kws) IN
       /\ search_log' = << [query |-> q, pages |-> pages] >>
       /\ local_pages' = pages
       /\ reranked_urls' = <<>>
       /\ IF pages = <<>>
          THEN /\ history_snippet' =
                     format_chat_history_snippet(histories[chat_session],
                                                 NUM_HISTORY_TURNS_FOR_GUIDANCE)
               /\ guidance_calls' = 1
               /\ rerank_calls' = 0
               /\ send_calls' = 0
               /\ context_for_answering' = <<>>
               /\ cli_pc' = "guidance"
          ELSE IF RerankPromptRaises(pages)
          THEN /\ history_snippet' = <<>>
               /\ guidance_calls' = 0
               /\ rerank_calls' = 0
               /\ send_calls' = 0
               /\ context_for_answering' = <<>>
               /\ cli_pc' = "crashed"
          ELSE /\ history_snippet' = <<>>
               /\ guidance_calls' = 0
               /\ rerank_calls' = 1
               /\ send_calls' = 0
               /\ context_for_answering' = <<>>
               /\ cli_pc' = "rerank"
    /\ cli_out' = "Step 1: Performing initial local search..."
    /\ UNCHANGED <<histories, chat_session, host>>
    /\ UNCHANGED <<searchVars, rerankVars, botVars, ingestVars>>

\* lines 259-301: the guidance call ends; the suggestion, if any, is searched
\* once, and the pipeline goes on with what local_pages then is
CliGuidanceReturn(resp) ==
    /\ host = "cli" /\ cli_pc = "guidance"
    /\ LET again == SearchesAgain(resp)
           suggested == IF resp.raises THEN EmptyString ELSE SuggestedQuery(resp)
           pages == IF again
                    THEN search_documents(file_exists, index, suggested.kws)
                    ELSE local_pages
       IN /\ search_log' = IF again
                           THEN Append(search_log, [query |-> suggested, pages |-> pages])
                           ELSE search_log
          /\ local_pages' = pages
          /\ AfterRetrieval(pages)
    /\ cli_out' = IF resp.raises
                  THEN "Error during LLM-guided search query generation"
                  ELSE "LLM-guided search refinement done"
    /\ UNCHANGED <<histories, chat_session, user_query, history_snippet,
                   reranked_urls, guidance_calls, queries_asked, host>>
    /\ UNCHANGED <<searchVars, rerankVars, botVars, ingestVars>>

\* lines 301-358: the rerank call ends; the context is assembled and the
\* answer prompt is sent
CliRerankReturn(resp) ==
    /\ host = "cli" /\ cli_pc = "rerank"
    /\ LET step == RerankStep(resp, local_pages) IN
       /\ reranked_urls' = step.urls
       /\ context_for_answering' = ConsolidateContext(step.ctx)
    /\ send_calls' = send_calls + 1
    /\ cli_pc' = "answer"
    /\ cli_out' = "Step 3: Asking Gemini to answer query"
    /\ UNCHANGED <<histories, chat_session, user_query, local_pages,
                   history_snippet, search_log, guidance_calls, rerank_calls,
                   queries_asked, host>>
    /\ UNCHANGED <<searchVars, rerankVars, botVars, ingestVars>>

\* lines 358-371: the answer call ends
CliAnswerReturn(resp) ==
    /\ host = "cli" /\ cli_pc = "answer"
    /\ histories' = [histories EXCEPT ![chat_session] =
                        RecordTurns(@, resp, "q" \o ToString(queries_asked))]
    /\ cli_out' = AnswerOutput(resp)
    /\ cli_pc' = AfterAnswer(resp)
    /\ UNCHANGED <<chat_session, user_query, local_pages,
                   history_snippet, search_log, reranked_urls,
                   context_for_answering, guidance_calls, rerank_calls,
                   send_calls, queries_asked, host>>
    /\ UNCHANGED <<searchVars, rerankVars, botVars, ingestVars>>

NextCli ==
    \/ CliQuit
    \/ CliNew
    \/ CliBlankQuery
    \/ \E q \in UserQueries : CliQuery(q)
    \/ \E resp \in GuidanceResponses : CliGuidanceReturn(resp)
    \/ \E resp \in RerankResponses : CliRerankReturn(resp)
    \/ \E resp \in AnswerResponses : CliAnswerReturn(resp)

----------------------------------------------------------------------------
(* discord_bot.py: the Discord host                                        *)
(*                                                                         *)
(* Every command handler is a coroutine on one event loop: the code        *)
(* between two awaits is one step.  The pipeline of a request runs in a    *)
(* thread of its own (asyncio.to_thread) and its steps interleave with     *)
(* everything else.                                                        *)

\* line 86: the key of the session map is the author's id
SessionKey_Shared(u) == "u1"

SessionKey(u) == u

\* line 88: user_id not in user_chat_sessions
NeedsNewSession_Always(u) == TRUE

NeedsNewSession(u) == user_chat_sessions[SessionKey(u)] = 0

Request(u, pc, session, epoch) ==
    [user |-> u, pc |-> pc, session |-> session, epoch |-> epoch]

InitBot ==
    /\ host = "discord"
    /\ SearchIdle
    /\ RerankIdle
    /\ IngestIdle
    /\ histories = <<>>
    /\ cli_pc = "off"
    /\ chat_session = 0
    /\ user_query = <<>>
    /\ local_pages = <<>>
    /\ history_snippet = <<>>
    /\ search_log = <<>>
    /\ reranked_urls = <<>>
    /\ context_for_answering = <<>>
    /\ guidance_calls = 0
    /\ rerank_calls = 0
    /\ send_calls = 0
    /\ queries_asked = 0
    /\ cli_out = ""
    /\ bot_state = "connecting"
    /\ user_chat_sessions = [u \in Users |-> 0]
    /\ requests = <<>>
    /\ reset_count = [u \in Users |-> 0]
    /\ response_text = <<>>
    /\ sent = <<>>
    /\ reply_pc = "off"
    /\ part_i = 0

\* lines 98-105: the pipeline is awaited through asyncio.to_thread, so the
\* handler that waits for it does not hold the event loop
HoldsLoop_Synchronous(pc) == pc = "sending"

HoldsLoop(pc) == FALSE

\* the event loop starts or resumes a handler only when no handler holds it
LoopFree == \A r \in 1..Len(requests) : ~HoldsLoop(requests[r].pc)

cliLocals == <<cli_pc, chat_session, user_query, local_pages, history_snippet,
               search_log, reranked_urls, context_for_answering, guidance_calls,
               rerank_calls, send_calls, queries_asked, cli_out>>

\* on_ready, lines 58-77: the model is initialised, or the bot is closed
OnReady(ok) ==
    /\ host = "discord" /\ bot_state = "connecting"
    /\ LoopFree
    /\ bot_state' = IF ok THEN "online" ELSE "closed"
    /\ UNCHANGED <<user_chat_sessions, requests, reset_count,
                   host, histories, cliLocals>>
    /\ UNCHANGED <<searchVars, rerankVars, ingestVars>>
    /\ UNCHANGED <<response_text, sent, reply_pc, part_i>>

\* ask, lines 82-94: up to the first await.  Without a model the command
\* ends at once; else the user's session is looked up, created if the map
\* has none, and "Thinking..." is sent
Ask(u) ==
    /\ host = "discord" /\ bot_state \in {"connecting", "online"}
    /\ LoopFree
    /\ Len(requests) < MaxRequests
    /\ IF bot_state = "connecting"
       THEN /\ requests' = Append(requests,
                               Request(u, "done", 0, reset_count[u]))
            /\ UNCHANGED <<user_chat_sessions, histories>>
       ELSE IF NeedsNewSession(u)
       THEN /\ StartChat(<<>>)
            /\ user_chat_sessions' =
                   [user_chat_sessions EXCEPT ![SessionKey(u)] = Len(histories) + 1]
            /\ requests' = Append(requests,
                               Request(u, "thinking", Len(histories) + 1,
                                       reset_count[u]))
       ELSE /\ requests' = Append(requests,
                               Request(u, "thinking", user_chat_sessions[SessionKey(u)],
                                       reset_count[u]))
            /\ UNCHANGED <<user_chat_sessions, histories>>
    /\ UNCHANGED <<bot_state, reset_count, host, cliLocals>>
    /\ UNCHANGED <<searchVars, rerankVars, ingestVars>>
    /\ UNCHANGED <<response_text, sent, reply_pc, part_i>>

\* lines 98-105 and process_query_with_rag_chat: asyncio.to_thread runs the
\* pipeline in a thread, and the pipeline sends the answer prompt on the
\* session that was looked up
SendStart(r) ==
    /\ host = "discord"
    /\ r \in 1..Len(requests) /\ requests[r].pc = "thinking"
    /\ LoopFree
    /\ requests' = [requests EXCEPT ![r].pc = "sending"]
    /\ UNCHANGED <<bot_state, user_chat_sessions, reset_count,
                   host, histories, cliLocals>>
    /\ UNCHANGED <<searchVars, rerankVars, ingestVars>>
    /\ UNCHANGED <<response_text, sent, reply_pc, part_i>>

\* process_query_with_rag_chat: the answer call ends, the session records
\* the turn, and the pipeline returns a text or raises
SendReturn(r, resp, escapes) ==
    /\ host = "discord"
    /\ escapes => resp.raises
    /\ r \in 1..Len(requests) /\ requests[r].pc = "sending"
    /\ histories' = [histories EXCEPT ![requests[r].session] =
                        RecordTurns(@, resp, "r" \o ToString(r))]
    /\ requests' = [requests EXCEPT
                       ![r].pc = IF resp.raises /\ escapes THEN "failed" ELSE "returned"]
    /\ UNCHANGED <<bot_state, user_chat_sessions, reset_count,
                   host, cliLocals>>
    /\ UNCHANGED <<searchVars, rerankVars, ingestVars>>
    /\ UNCHANGED <<response_text, sent, reply_pc, part_i>>

\* where the handler is after the awaited thread ended: lines 107-112 send
\* the text, lines 114-116 catch every Exception and send an apology
AfterThread(pc) == "done"

\* lines 107-116; which messages the text is sent in is followed by
\* SpecReply below
Reply(r) ==
    /\ host = "discord"
    /\ r \in 1..Len(requests) /\ requests[r].pc \in {"returned", "failed"}
    /\ LoopFree
    /\ requests' = [requests EXCEPT ![r].pc = AfterThread(requests[r].pc)]
    /\ UNCHANGED <<bot_state, user_chat_sessions, reset_count,
                   host, histories, cliLocals>>
    /\ UNCHANGED <<searchVars, rerankVars, ingestVars>>
    /\ UNCHANGED <<response_text, sent, reply_pc, part_i>>

\* line 124: del user_chat_sessions[user_id]
AfterReset_Kept(entry) == entry

AfterReset(entry) == 0

\* new_chat_command, lines 119-127
NewChat(u) ==
    /\ host = "discord" /\ bot_state \in {"connecting", "online"}
    /\ LoopFree
    /\ IF user_chat_sessions[SessionKey(u)] # 0
       THEN /\ user_chat_sessions' =
                   [user_chat_sessions EXCEPT ![SessionKey(u)] = AfterReset(@)]
            /\ reset_count' = [reset_count EXCEPT ![u] = @ + 1]
       ELSE UNCHANGED <<user_chat_sessions, reset_count>>   \* only a message
    /\ UNCHANGED <<bot_state, requests, host, histories, cliLocals>>
    /\ UNCHANGED <<searchVars, rerankVars, ingestVars>>
    /\ UNCHANGED <<response_text, sent, reply_pc, part_i>>

NextBot ==
    \/ \E ok \in BOOLEAN : OnReady(ok)
    \/ \E u \in Users : Ask(u)
    \/ \E r \in 1..MaxRequests : SendStart(r)
    \/ \E r \in 1..MaxRequests, resp \in AnswerResponses, escapes \in BOOLEAN :
          SendReturn(r, resp, escapes)
    \/ \E r \in 1..MaxRequests : Reply(r)
    \/ \E u \in Users : NewChat(u)

----------------------------------------------------------------------------
(* Spec: a run of the interactive loop or a run of the Discord host *)

Init == InitCli \/ InitBot

Next == NextCli \/ NextBot

Spec == Init /\ [][Next]_vars

----------------------------------------------------------------------------
(* discord_bot.py, ask, lines 107-112: the messages one reply is sent in.  *)
(*                                                                         *)
(* A character is a number here; a message is a record of its fixed head   *)
(* ("says" for the "... says:" line, "parts" for the announcement of line  *)
(* 108, "" for none) and the characters of the response it carries.  Every *)
(* ctx.send is taken to return.                                            *)

\* lines 107, 109, 110: the literal 1950
PART_LENGTH == 1950

MaxParts == 3

Message(head, body) == [head |-> head, body |-> body]

\* line 107: len(response_text) > 1950
IsLong(text) == Len(text) > PART_LENGTH

\* line 110: response_text[i:i + 1950], i counted from 0
Part_FromStart(text, i) ==
    SubSeq(text, 1, IF PART_LENGTH <= Len(text) THEN PART_LENGTH ELSE Len(text))

Part(text, i) ==
    SubSeq(text, i + 1,
           IF i + PART_LENGTH <= Len(text) THEN i + PART_LENGTH ELSE Len(text))

\* the texts the pipeline may return: of the lengths around every multiple
\* of PART_LENGTH up to MaxParts parts, with all characters different or
\* with few characters repeated
ReturnedTexts ==
    LET lengths == { n \in 0..(MaxParts * PART_LENGTH + MaxParts) :
                       \E k \in 0..MaxParts :
                          /\ n >= k * PART_LENGTH - MaxParts
                          /\ n <= k * PART_LENGTH + MaxParts }
    IN { [i \in 1..n |-> i] : n \in lengths }
          \cup { [i \in 1..n |-> i % 7] : n \in lengths }

\* the awaited thread of lines 98-105 has returned response_text
InitReply ==
    /\ SearchIdle
    /\ RerankIdle
    /\ CliIdle
    /\ IngestIdle
    /\ bot_state = "off"
    /\ user_chat_sessions = [u \in Users |-> 0]
    /\ requests = <<>>
    /\ reset_count = [u \in Users |-> 0]
    /\ response_text \in ReturnedTexts
    /\ sent = <<>>
    /\ reply_pc = "returned"
    /\ part_i = 0

\* lines 107, 111-112: a text of at most 1950 characters goes out in one
\* message, after the "... says:" line
SendWhole ==
    /\ reply_pc = "returned"
    /\ ~IsLong(response_text)
    /\ sent' = Append(sent, Message("says", response_text))
    /\ reply_pc' = "done"
    /\ UNCHANGED <<response_text, part_i>>
    /\ UNCHANGED <<bot_state, user_chat_sessions, requests, reset_count>>
    /\ UNCHANGED <<searchVars, rerankVars, cliVars, ingestVars>>

\* lines 107-109: a longer text is announced, and the loop starts at i = 0
AnnounceParts ==
    /\ reply_pc = "returned"
    /\ IsLong(response_text)
    /\ sent' = Append(sent, Message("parts", <<>>))
    /\ part_i' = 0
    /\ reply_pc' = "parts"
    /\ UNCHANGED response_text
    /\ UNCHANGED <<bot_state, user_chat_sessions, requests, reset_count>>
    /\ UNCHANGED <<searchVars, rerankVars, cliVars, ingestVars>>

\* lines 109-110: one turn of the loop over range(0, len(response_text), 1950)
SendPart ==
    /\ reply_pc = "parts"
    /\ part_i < Len(response_text)
    /\ sent' = Append(sent, Message("", Part(response_text, part_i)))
    /\ part_i' = part_i + PART_LENGTH
    /\ reply_pc' = IF part_i' < Len(response_text) THEN "parts" ELSE "done"
    /\ UNCHANGED response_text
    /\ UNCHANGED <<bot_state, user_chat_sessions, requests, reset_count>>
    /\ UNCHANGED <<searchVars, rerankVars, cliVars, ingestVars>>

NextReply ==
    \/ SendWhole
    \/ AnnounceParts
    \/ SendPart

SpecReply == InitReply /\ [][NextReply]_vars

----------------------------------------------------------------------------
(* Properties of search_documents *)

\* the filtered keyword set of a query: lowercased, not blacklisted, at least
\* MIN_USER_KEYWORD_LENGTH characters
FilteredTerms(items) ==
    { LowerStr(items[i].term) :
        i \in { j \in 1..Len(items) :
                  /\ items[j].usable
                  /\ LowerStr(items[j].term) \notin SEARCH_QUERY_BLACKLIST
                  /\ Len(items[j].term) >= MIN_USER_KEYWORD_LENGTH } }

TitleHasTerm(doc, terms) ==
    \E kw \in terms : WholeWordSearch(kw, LowerStr(doc.title))

InResult(doc) == \E i \in 1..Len(result) : result[i] = doc

\* C1: every line of the index whose lowercased title contains a filtered
\* query term as a whole word is in the list search_documents returns,
\* whatever its keyword entries look like.
C1_TitleMatchIncluded ==
    (searched /\ ~raised /\ file_exists) =>
        \A n \in 1..Len(index) :
            (/\ index[n].parses
             /\ index[n].titleIsStr
             /\ TitleHasTerm(index[n], FilteredTerms(extracted)))
            => InResult(index[n])

\* C2: in the returned list no document that matched only by keyword comes
\* before a document that matched by title, whatever the weights.
C2_TitleMatchesFirst ==
    searched =>
        \A i, j \in 1..Len(result) :
            (i < j /\ TitleHasTerm(result[j], FilteredTerms(extracted)))
            => TitleHasTerm(result[i], FilteredTerms(extracted))

\* a keyword-only match of weight 0.90 stands before a title-only match in the
\* file and after it in the result
C2_Witness ==
    /\ searched
    /\ Len(index) >= 2
    /\ index[1] = DocKeywordOnly
    /\ index[2] = DocTitleOnly
    /\ \E i, j \in 1..Len(result) :
          i < j /\ result[i] = DocTitleOnly /\ result[j] = DocKeywordOnly

\* C3: a query whose filtered keyword set is empty gets the empty list, and
\* search_documents does not raise.
C3_EmptyKeywordSetEmptyResult ==
    (searched /\ FilteredTerms(extracted) = {}) =>
        (~raised /\ result = <<>>)

\* the extractor returned only a blacklisted term, a too short term and a
\* malformed item, and the index has a line titled with the blacklisted term
C3_Witness ==
    /\ searched
    /\ file_exists
    /\ Len(extracted) = 2
    /\ FilteredTerms(extracted) = {}
    /\ \E n \in 1..Len(index) : index[n] = DocNegativeWeight
    /\ result = <<>>

----------------------------------------------------------------------------
(* Properties of the rerank parsing and the context assembly *)

\* C4: every url the rerank step returns is the url of a document of the
\* candidate list it was given.
C4_RerankedUrlsAreCandidates ==
    rstep # "start" =>
        \A i \in 1..Len(parsed_urls) : parsed_urls[i] \in UrlsOf(candidates)

Resolves(url) == \E j \in 1..Len(candidates) : candidates[j].url = url

NoneOfFirstResolves ==
    \A i \in 1..Len(parsed_urls) :
        i <= MAX_PAGES_FOR_ANSWERING => ~Resolves(parsed_urls[i])

\* C5: when no reference resolves, get_content_for_answering returns a fixed
\* non-empty string: the "no documents identified" message for the empty
\* list, the "no content could be retrieved" message for a non-empty list
\* none of whose first 3 parsed_urls is a candidate's url.
C5_SentinelWhenNothingResolves ==
    (rstep = "assembled" /\ NoneOfFirstResolves) =>
        /\ content # <<>>
        /\ content = IF parsed_urls = <<>> THEN NoRerankedUrlsMessage
                     ELSE NoContentMessage

\* four parsed_urls were parsed, the first three resolve to nothing and the fourth
\* is a candidate's url
C5_Witness ==
    /\ rstep = "assembled"
    /\ Len(parsed_urls) = 4
    /\ NoneOfFirstResolves
    /\ Resolves(parsed_urls[4])
    /\ content = NoContentMessage

----------------------------------------------------------------------------
(* Properties of the interactive loop and of the Discord host *)

SnippetOf(h) ==
    format_chat_history_snippet(histories'[h], NUM_HISTORY_TURNS_FOR_GUIDANCE)

LastRequest == requests'[Len(requests')]

\* C6: after a reset the session of the user's next query has no turns, so
\* a history snippet built on it before any new answer is the "No prior
\* conversation history." text.  In the loop '/new' puts a handle in place
\* whose snippet is that text; in the Discord host a reset leaves the user
\* without a session, and a user without a session gets a handle whose
\* snippet is that text; a guidance prompt built on a handle without recorded
\* turns carries that text.
C6_ResetClearsHistory ==
    /\ [](cli_pc = "guidance" /\ histories[chat_session] = <<>>
            => history_snippet = NoPriorHistoryMessage)
    /\ [][ /\ CliNew => (chat_session' # chat_session
                         /\ SnippetOf(chat_session') = NoPriorHistoryMessage)
           /\ \A u \in Users :
                /\ NewChat(u) => user_chat_sessions'[u] = 0
                /\ (Ask(u) /\ bot_state = "online" /\ user_chat_sessions[u] = 0)
                     => (/\ LastRequest.session = user_chat_sessions'[u]
                         /\ SnippetOf(LastRequest.session) = NoPriorHistoryMessage)
         ]_vars

\* the loop answered a query, was reset, and built the guidance prompt of the
\* next query
C6_Witness ==
    /\ host = "cli"
    /\ chat_session = 2
    /\ histories[1] # <<>>
    /\ cli_pc = "guidance"
    /\ history_snippet = NoPriorHistoryMessage

\* C7: one query calls search_documents at most twice: first with the query
\* itself, and a second time only if the first call found nothing and the
\* collaborator suggested a non-empty query; the pipeline goes on with the
\* result of the last call.
C7_SearchAtMostTwice ==
    host = "cli" =>
        /\ Len(search_log) <= 2
        /\ Len(search_log) >= 1 => search_log[1].query = user_query
        /\ Len(search_log) = 2 =>
              /\ search_log[1].pages = <<>>
              /\ ~search_log[2].query.blank
        /\ cli_pc \in {"rerank", "answer"} =>
              local_pages = search_log[Len(search_log)].pages

\* the suggested query found nothing either and the answer prompt was sent
C7_Witness ==
    /\ host = "cli"
    /\ cli_pc = "answer"
    /\ Len(search_log) = 2
    /\ search_log[2].pages = <<>>
    /\ local_pages = <<>>

\* C8: whatever the answer call does, the loop is back at its prompt on the
\* same session, and the handler of a Discord request ends.
C8_BackToIdle ==
    [][ /\ cli_pc = "answer" => (cli_pc' = "input" /\ chat_session' = chat_session)
        /\ \A r \in 1..Len(requests) :
             /\ requests[r].pc = "sending"
                  => requests'[r].pc \in {"sending", "returned", "failed"}
             /\ requests[r].pc \in {"returned", "failed"}
                  => requests'[r].pc \in {requests[r].pc, "done"}
      ]_vars

\* the answer call raised and the loop is at its prompt again, with a query
\* still to come
C8_Witness ==
    /\ host = "cli"
    /\ cli_pc = "input"
    /\ cli_out = AnswerOutput(Raised)
    /\ queries_asked < MaxQueries
    /\ ENABLED CliNew

\* a step taken for user u: one of u's commands or the pipeline of one of
\* u's requests
StepOf(u) ==
    \/ Ask(u)
    \/ NewChat(u)
    \/ \E r \in 1..Len(requests) :
          /\ requests[r].user = u
          /\ \E resp \in AnswerResponses, escapes \in BOOLEAN :
                SendReturn(r, resp, escapes)

\* C9: two users never share a session, and the session of a user is given
\* a turn, removed or replaced only by a step taken for that user.
C9_SessionsIsolated ==
    /\ [](\A a, b \in Users :
            (a # b /\ user_chat_sessions[a] # 0)
                => user_chat_sessions[a] # user_chat_sessions[b])
    /\ [][ \A b \in Users :
             (\/ user_chat_sessions'[b] # user_chat_sessions[b]
              \/ /\ user_chat_sessions[b] # 0
                 /\ histories'[user_chat_sessions[b]] # histories[user_chat_sessions[b]])
             => StepOf(b)
         ]_vars

\* both users have a session with recorded turns
C9_Witness ==
    /\ host = "discord"
    /\ \A u \in Users :
         /\ user_chat_sessions[u] # 0
         /\ histories[user_chat_sessions[u]] # <<>>

\* the requests that went past the session lookup
Served == { r \in 1..Len(requests) : requests[r].session # 0 }

\* C10: the requests of one user between two resets all use one session, no
\* handle is created that no request uses, and a request uses the session the
\* map holds when it looks it up.
C10_OneSessionPerUser ==
    /\ [](/\ \A r1, r2 \in Served :
               (/\ requests[r1].user = requests[r2].user
                /\ requests[r1].epoch = requests[r2].epoch)
               => requests[r1].session = requests[r2].session
          /\ host = "discord" =>
               \A h \in 1..Len(histories) : \E r \in Served : requests[r].session = h)
    /\ [][ \A u \in Users :
             (Ask(u) /\ bot_state = "online")
                => LastRequest.session = user_chat_sessions'[u]
         ]_vars

\* two first requests of one user are in flight together on the only handle
C10_Witness ==
    /\ host = "discord"
    /\ Len(histories) = 1
    /\ \E r1, r2 \in Served :
         /\ r1 # r2
         /\ requests[r1].user = requests[r2].user
         /\ requests[r1].pc \in {"thinking", "sending"}
         /\ requests[r2].pc \in {"thinking", "sending"}
         /\ requests[r1].session = 1
         /\ requests[r2].session = 1

----------------------------------------------------------------------------
(* Properties of the Discord host and of the answer step, continued *)

InFlight(u) ==
    \E r \in 1..Len(requests) :
        requests[r].user = u /\ requests[r].pc = "sending"

\* C11: while the pipeline call of one user is in flight, the host can accept
\* an !ask and a reset of any other user and can start the pipeline of the
\* other user's pending request: the other user never waits for the first.
C11_OtherUsersNotBlocked ==
    \A a, b \in Users :
        (/\ host = "discord"
         /\ a # b
         /\ InFlight(a)
         /\ Len(requests) < MaxRequests
         /\ Len(histories) < MaxSessions)
        => /\ ENABLED Ask(b)
           /\ ENABLED NewChat(b)
           /\ \A r \in 1..Len(requests) :
                 (requests[r].user = b /\ requests[r].pc = "thinking")
                 => ENABLED SendStart(r)

\* u2 asked after the call of u1 began, and both calls are in flight
C11_Witness ==
    /\ host = "discord"
    /\ \E r1, r2 \in 1..Len(requests) :
          /\ r1 < r2
          /\ requests[r1].user = "u1" /\ requests[r1].pc = "sending"
          /\ requests[r2].user = "u2" /\ requests[r2].pc = "sending"

\* C12: an answer call that returned is mapped to one of three outcomes,
\* tested in this order: a response with a block reason gives the 'blocked'
\* text even when it carries text; else a response with parts gives the
\* collaborator's text unchanged; else the fixed 'no text' message is given.
\* None of the three raises: the loop is back at its prompt.
C12_AnswerOutcomes ==
    [][\A resp \in AnswerResponses :
          (CliAnswerReturn(resp) /\ ~resp.raises) =>
              /\ cli_pc' = "input"
              /\ resp.block_reason => cli_out' = "Answering blocked"
              /\ (~resp.block_reason /\ resp.parts) => cli_out' = resp.text
              /\ (~resp.block_reason /\ ~resp.parts) =>
                     cli_out' = "No text in final answer response and not blocked (unexpected)."
      ]_vars

\* the loop printed the 'blocked' text for the one answer call of a query
C12_Witness ==
    /\ host = "cli"
    /\ cli_pc = "input"
    /\ send_calls = 1
    /\ cli_out = "Answering blocked"

\* C13: every query that is neither empty nor a command leads to exactly one
\* answer call on the session: once the pipeline is past its retrieval and
\* rerank stages, or has ended, the answer prompt was sent once, and it is
\* never sent twice.
C13_EveryQueryAnswered ==
    host = "cli" =>
        /\ send_calls <= 1
        /\ (queries_asked > 0 /\ cli_pc \notin {"guidance", "rerank"})
              => send_calls = 1

IsPrefix(a, b) == Len(a) <= Len(b) /\ SubSeq(b, 1, Len(a)) = a

\* C14: the chat handle of a session is replaced or removed only by the
\* user's reset ('/new' in the loop, the reset command in the Discord host);
\* no other step, whatever the outcome of a query, replaces the handle, and
\* no step shortens or clears the history of a handle.
C14_OnlyResetReplacesHandle ==
    [][/\ chat_session' # chat_session => CliNew
       /\ \A u \in Users :
             (/\ user_chat_sessions[u] # 0
              /\ user_chat_sessions'[u] # user_chat_sessions[u]) => NewChat(u)
       /\ \A h \in 1..Len(histories) :
             /\ h <= Len(histories')
             /\ IsPrefix(histories[h], histories'[h])
      ]_vars

\* the answer call of the second query raised, and the loop still holds its
\* first handle with the turns of the first query
C14_Witness ==
    /\ host = "cli"
    /\ cli_pc = "input"
    /\ queries_asked = 2
    /\ cli_out = "An error during Gemini answering"
    /\ chat_session = 1
    /\ Len(histories[1]) = 2

----------------------------------------------------------------------------
(* Properties of the rerank parsing and the context assembly, continued *)

\* the lines of a text: what stands between two newlines
RECURSIVE LinesOf(_, _, _)
LinesOf(text, p, line) ==
    IF p > Len(text) THEN << line >>
    ELSE IF text[p] = "\n" THEN << line >> \o LinesOf(text, p + 1, <<>>)
    ELSE LinesOf(text, p + 1, Append(line, text[p]))

\* the url of a line that, taken alone, matches 'URL: <http(s) url>'
UrlOfLine(line) ==
    IF MatchAt(line, 1).ok THEN << MatchAt(line, 1).url >> ELSE <<>>

RECURSIVE UrlsOfLines(_, _)
UrlsOfLines(ls, n) ==
    IF n = 0 THEN <<>> ELSE UrlsOfLines(ls, n - 1) \o UrlOfLine(ls[n])

\* C15: parse_reranked_results returns exactly the url tokens of the lines of
\* the response that match 'URL: <http(s) url>' (any case of the label,
\* optional leading whitespace), in the order of the lines, duplicates kept;
\* a line that does not match contributes nothing.
C15_UrlsOfMatchingLines ==
    rstep # "start" =>
        LET ls == LinesOf(response, 1, <<>>) IN
        parsed_urls = UrlsOfLines(ls, Len(ls))

----------------------------------------------------------------------------
(* Properties of the ingest *)

\* the keyword terms of a line of the index as the search reads them
StoredTerms(doc) ==
    { LowerStr(doc.keywords[i].term) :
        i \in { j \in 1..Len(doc.keywords) : doc.keywords[j].shape = "pair" } }

\* line n of the index was written by this run from line m of the raw file
IngestedFrom(n, m) ==
    /\ n \in 1..Len(index)
    /\ m \in 1..raw_pos
    /\ raw_file[m].parses
    /\ index[n].parses
    /\ index[n].url = raw_file[m].url
    /\ index[n].text = raw_file[m].text

\* C16 as stated: the keyword terms stored for a text at ingest and the
\* keyword set of a query with the same text are the same set.
C16_SameTermSet ==
    \A n \in 1..Len(index), m \in 1..Len(raw_file) :
        IngestedFrom(n, m)
        => StoredTerms(index[n]) = FilteredTerms(raw_file[m].kws)

\* C16, amended: ingest stores the terms of the same extractor as they are,
\* in their order and case, without blacklist or minimum length; the keyword
\* set of a query with the same text is the set of the lowercased stored
\* terms that pass the blacklist and the minimum length; and when that set
\* is not empty, the query finds the ingested document.
C16_QueryTermsAreFilteredStoredTerms ==
    /\ \A n \in 1..Len(index), m \in 1..Len(raw_file) :
          IngestedFrom(n, m) =>
              /\ Len(index[n].keywords) = Len(raw_file[m].kws)
              /\ \A i \in 1..Len(raw_file[m].kws) :
                    raw_file[m].kws[i].usable =>
                        /\ index[n].keywords[i].shape = "pair"
                        /\ index[n].keywords[i].term = raw_file[m].kws[i].term
              /\ FilteredTerms(raw_file[m].kws) =
                    { t \in StoredTerms(index[n]) :
                        /\ t \notin SEARCH_QUERY_BLACKLIST
                        /\ Len(t) >= MIN_USER_KEYWORD_LENGTH }
    /\ (searched /\ FilteredTerms(extracted) # {}) =>
          \A n \in 1..Len(index), m \in 1..Len(raw_file) :
              (IngestedFrom(n, m) /\ raw_file[m].kws = extracted)
              => InResult(index[n])

\* a text whose extraction holds a stop word was ingested and then queried:
\* the stored terms are more than the query's keyword set, and the document
\* is found
C16_Witness ==
    /\ ingest_pc = "done"
    /\ searched
    /\ \E n \in 1..Len(index), m \in 1..Len(raw_file) :
          /\ IngestedFrom(n, m)
          /\ raw_file[m].kws = extracted
          /\ StoredTerms(index[n]) # FilteredTerms(extracted)
          /\ InResult(index[n])

----------------------------------------------------------------------------
(* Properties of the interactive loop, continued *)

\* the loop is not inside the pipeline of a query
QueryEnded ==
    queries_asked > 0 /\ cli_pc \in {"input", "exited", "crashed"}

\* C17: within one query no collaborator call is made again: the guidance
\* generation is called at most once, the rerank generation at most once,
\* and when the query has ended the answer prompt was sent exactly once.
C17_NoCallRepeated ==
    host = "cli" =>
        /\ guidance_calls <= 1
        /\ rerank_calls <= 1
        /\ send_calls <= 1
        /\ QueryEnded => send_calls = 1

\* the guidance call returned no suggestion: it was blocked, it had no
\* parts, or its text is empty after trimming
NoSuggestion(resp) ==
    ~resp.raises /\ (resp.block_reason \/ ~resp.parts \/ resp.text.blank)

\* C18: when the guidance call is blocked, returns no parts or returns text
\* that is empty after trimming, search_documents is not called a second
\* time and the pipeline goes on with the empty candidate list: no rerank
\* call, and the answer prompt is sent with the 'no pages' context.
C18_NoSuggestionNoSecondSearch ==
    [][\A resp \in GuidanceResponses :
          (CliGuidanceReturn(resp) /\ NoSuggestion(resp)) =>
              /\ search_log' = search_log
              /\ local_pages' = <<>>
              /\ rerank_calls' = 0
              /\ cli_pc' = "answer"
              /\ context_for_answering' = NoLocalPagesMessage
      ]_vars

\* the guidance call was made and the answer prompt is out with the 'no
\* pages' context after a single search
C18_Witness ==
    /\ host = "cli"
    /\ cli_pc = "answer"
    /\ guidance_calls = 1
    /\ Len(search_log) = 1
    /\ local_pages = <<>>
    /\ context_for_answering = NoLocalPagesMessage

----------------------------------------------------------------------------
(* Properties of the context assembly, continued *)

\* the positions among the first MAX_PAGES_FOR_ANSWERING references whose
\* url is the url of a candidate
ResolvedPositions ==
    { i \in 1..Len(parsed_urls) :
        i <= MAX_PAGES_FOR_ANSWERING /\ Resolves(parsed_urls[i]) }

\* the first candidate, in candidate order, with exactly this url
FirstCandidate(url) ==
    CHOOSE j \in 1..Len(candidates) :
        /\ candidates[j].url = url
        /\ \A k \in 1..(j - 1) : candidates[k].url # url

\* C19: get_content_for_answering looks at the first 3 reference urls only,
\* in order: the content has one block for each of them that is the url of
\* a candidate, in reference order, made from the first candidate with that
\* url; a reference that resolves to nothing adds nothing, and a reference
\* at position 4 or later adds nothing even when none of the first 3
\* resolves.
C19_FirstThreeReferencesInOrder ==
    rstep = "assembled" =>
        /\ ResolvedPositions # {} =>
              /\ Len(content) = Cardinality(ResolvedPositions)
              /\ \A i \in ResolvedPositions :
                    LET block == content[Cardinality({ k \in ResolvedPositions : k <= i })]
                        doc == candidates[FirstCandidate(parsed_urls[i])]
                    IN /\ block.kind = IF doc.text # "" THEN "context" ELSE "notext"
                       /\ block.url = parsed_urls[i]
                       /\ block.title = doc.title
                       /\ block.text = doc.text
        /\ ResolvedPositions = {} =>
              \A k \in 1..Len(content) : content[k].kind = "literal"

\* four references: among the first three one resolves and one does not,
\* and the fourth is a candidate's url
C19_Witness ==
    /\ rstep = "assembled"
    /\ Len(parsed_urls) = 4
    /\ Resolves(parsed_urls[4])
    /\ \E i \in 1..3 : Resolves(parsed_urls[i])
    /\ \E i \in 1..3 : ~Resolves(parsed_urls[i])
    /\ Len(candidates) = 2
    /\ candidates[1].url = candidates[2].url

----------------------------------------------------------------------------
(* Properties of search_documents, continued *)

\* the weights of the keyword entries of a document whose lowercased term is
\* in the query's keyword set
MatchingWeights(doc, terms) ==
    { doc.keywords[i].weight :
        i \in { j \in 1..Len(doc.keywords) :
                  /\ doc.keywords[j].shape = "pair"
                  /\ LowerStr(doc.keywords[j].term) \in terms } }

\* the maximum of the matching weights, 0.0 for a match by title only
MaxMatchingWeight(doc, terms) ==
    LET ws == MatchingWeights(doc, terms) IN
    IF ws = {} THEN 0 ELSE CHOOSE w \in ws : \A v \in ws : v <= w

\* C20: among the returned documents with the same title-match flag the
\* effective weights do not increase, the effective weight of a document
\* being the maximum weight over its keyword entries whose lowercased term
\* is in the query's keyword set, and 0.0 for a match by title only.
C20_WeightOrderWithinTitleFlag ==
    searched =>
        LET terms == FilteredTerms(extracted) IN
        \A i, j \in 1..Len(result) :
            (/\ i < j
             /\ TitleHasTerm(result[i], terms) = TitleHasTerm(result[j], terms))
            => MaxMatchingWeight(result[i], terms) >= MaxMatchingWeight(result[j], terms)

\* how often a record stands in a list
CountIn(doc, list) == Cardinality({ i \in 1..Len(list) : list[i] = doc })

\* C21: search_documents returns a document only if it matched by title or
\* by keyword: every returned document has a filtered query term as a whole
\* word of its title or as one of its keyword terms (exact, any case), and
\* no record of the index is returned more often than it stands in the file.
C21_OnlyMatchesEachOnce ==
    searched =>
        LET terms == FilteredTerms(extracted) IN
        \A i \in 1..Len(result) :
            /\ \/ TitleHasTerm(result[i], terms)
               \/ MatchingWeights(result[i], terms) # {}
            /\ CountIn(result[i], result) <= CountIn(result[i], index)

\* the query matches one line of the file by title and does not match
\* another, well-formed line, which stays out of the result
C21_Witness ==
    /\ searched
    /\ InResult(DocTitleOnly)
    /\ \E n \in 1..Len(index) : index[n] = DocKeywordOnly
    /\ ~InResult(DocKeywordOnly)

\* the other case of a letter
SwapCase(c) ==
    IF c = "a" THEN "A" ELSE IF c = "A" THEN "a"
    ELSE IF c = "b" THEN "B" ELSE IF c = "B" THEN "b" ELSE c

\* another extractor output for the same keyword set: the items in reverse
\* order, every term in the other case and with another weight, followed by
\* the items once more
QueryVariant(items) ==
    [i \in 1..Len(items) |->
        [items[Len(items) + 1 - i]
            EXCEPT !.term = [k \in 1..Len(@) |-> SwapCase(@[k])],
                   !.weight = 100 - @]]
    \o items

\* C22: for a fixed index, two queries with the same filtered keyword set
\* get the same result sequence from search_documents, whatever the order,
\* the multiplicity, the case and the weights of the extracted keywords.
C22_SameKeywordSetSameResult ==
    (searched /\ ~raised) =>
        /\ FilteredTerms(QueryVariant(extracted)) = FilteredTerms(extracted)
        /\ search_documents(file_exists, index, QueryVariant(extracted)) = result

\* a query of two different kept terms with at least two documents returned
C22_Witness ==
    /\ searched
    /\ Len(extracted) = 2
    /\ Cardinality(FilteredTerms(extracted)) = 2
    /\ Len(result) >= 2

\* a record with nothing malformed in it
WellFormed(doc) ==
    /\ doc.parses
    /\ doc.titleIsStr
    /\ doc.kwKind \in {"absent", "list"}
    /\ \A i \in 1..Len(doc.keywords) :
          doc.keywords[i].shape = "pair" /\ doc.keywords[i].numeric

\* C23: a malformed record of the index (a line that does not parse, a
\* keyword entry of the wrong shape or with a non-numeric weight) never
\* aborts the search: search_documents returns without an exception, and
\* every well-formed record that matches the query is in the result.
C23_MalformedRecordNotFatal ==
    searched =>
        /\ ~raised
        /\ LET terms == FilteredTerms(extracted) IN
           \A n \in 1..Len(index) :
               (/\ WellFormed(index[n])
                /\ \/ TitleHasTerm(index[n], terms)
                   \/ MatchingWeights(index[n], terms) # {})
               => InResult(index[n])

\* a line that does not parse and a line with a non-numeric weight stand
\* before a well-formed line, which is returned
C23_Witness ==
    /\ searched
    /\ Len(index) = 3
    /\ ~index[1].parses
    /\ index[2] = DocBadWeight
    /\ ~InResult(DocBadWeight)
    /\ WellFormed(index[3])
    /\ InResult(index[3])

----------------------------------------------------------------------------
(* Properties of the Discord host, continued *)

\* C24: in the Discord host no session has two pipeline calls in flight at
\* once, whatever the interleaving of the !ask commands, also when one user
\* sends a second !ask before the first has returned.
C24_OneCallPerSession ==
    \A r1, r2 \in 1..Len(requests) :
        (/\ r1 # r2
         /\ requests[r1].pc = "sending"
         /\ requests[r2].pc = "sending")
        => requests[r1].session # requests[r2].session

\* the request that a recorded turn belongs to
TurnOf(r) == "r" \o ToString(r)

\* C25: when a user resets while one of their queries is in flight, the
\* turn of that query goes to the old, removed session only: the session
\* that the user's next !ask creates starts without history, and the
\* session a user holds never has a turn of a query that started before
\* the user's last reset.
C25_ResetOrphansInFlightTurn ==
    /\ [](host = "discord" =>
            \A u \in Users, r \in 1..Len(requests) :
                (/\ user_chat_sessions[u] # 0
                 /\ \E i \in 1..Len(histories[user_chat_sessions[u]]) :
                       histories[user_chat_sessions[u]][i].text = TurnOf(r))
                => /\ requests[r].user = u
                   /\ requests[r].epoch = reset_count[u])
    /\ [][\A u \in Users :
             (Ask(u) /\ bot_state = "online" /\ user_chat_sessions[u] = 0)
                => histories'[user_chat_sessions'[u]] = <<>>
         ]_vars

\* the first query of u1 began before the reset of u1; its turn is in the
\* removed session, and the session of the next !ask of u1 has no turn
C25_Witness ==
    /\ host = "discord"
    /\ Len(requests) >= 2
    /\ requests[1].user = "u1" /\ requests[1].epoch = 0
    /\ requests[2].user = "u1" /\ requests[2].epoch = 1
    /\ reset_count["u1"] = 1
    /\ user_chat_sessions["u1"] = requests[2].session
    /\ requests[1].session # requests[2].session
    /\ histories[requests[1].session] # <<>>
    /\ histories[requests[2].session] = <<>>
    /\ requests[2].pc = "sending"

----------------------------------------------------------------------------
(* Properties of the pipeline of one query *)

\* C26: the rerank call is made if and only if the candidate list is not
\* empty once the first search and the search of the suggestion, if any,
\* are done; with an empty list the answer prompt is sent at once with the
\* 'no documents found' context, and nothing is parsed or assembled.
C26_RerankIffCandidates ==
    (host = "cli" /\ queries_asked > 0 /\ cli_pc # "guidance") =>
        /\ rerank_calls = 1 <=> local_pages # <<>>
        /\ (local_pages = <<>> /\ cli_pc = "answer") =>
              /\ context_for_answering = NoLocalPagesMessage
              /\ reranked_urls = <<>>

\* a reference among the first MAX_PAGES_FOR_ANSWERING of the current query
\* is the url of a candidate
SomeReferenceResolved ==
    \E i \in 1..Len(reranked_urls) :
        /\ i <= MAX_PAGES_FOR_ANSWERING
        /\ \E j \in 1..Len(local_pages) : local_pages[j].url = reranked_urls[i]

\* C27: the context of the answer prompt is never empty, and when at least
\* one reference resolved it is exactly what get_content_for_answering
\* returned: the marker check of the consolidation step does not change an
\* assembled context, also when the text of a page holds a marker.
C27_ContextNeverEmptyNorAltered ==
    (host = "cli" /\ cli_pc = "answer") =>
        /\ context_for_answering # <<>>
        /\ SomeReferenceResolved =>
              context_for_answering =
                  get_content_for_answering(reranked_urls, local_pages)

\* the answer prompt carries the text of a page that holds the marker
\* 'was blocked'
C27_Witness ==
    /\ host = "cli"
    /\ cli_pc = "answer"
    /\ SomeReferenceResolved
    /\ \E k \in 1..Len(context_for_answering) :
          /\ context_for_answering[k].kind = "context"
          /\ context_for_answering[k].text \in TextsWithMarker

\* C28: every document block of the context of the answer prompt is made
\* from a document of the candidate list of the current query whose url is
\* one of the first 3 parsed references; a url the collaborator emitted
\* that is no candidate's url puts no document text into the context.
C28_BlocksComeFromCandidates ==
    (host = "cli" /\ cli_pc = "answer") =>
        \A k \in 1..Len(context_for_answering) :
            LET block == context_for_answering[k] IN
            block.kind # "literal" =>
                /\ \E j \in 1..Len(local_pages) :
                      /\ local_pages[j].url = block.url
                      /\ local_pages[j].title = block.title
                      /\ local_pages[j].text = block.text
                /\ \E i \in 1..Len(reranked_urls) :
                      i <= MAX_PAGES_FOR_ANSWERING /\ reranked_urls[i] = block.url

\* the collaborator named a url that is no candidate's and then a
\* candidate's url: the context has the block of the candidate only
C28_Witness ==
    /\ host = "cli"
    /\ cli_pc = "answer"
    /\ Len(reranked_urls) = 2
    /\ \A j \in 1..Len(local_pages) : local_pages[j].url # reranked_urls[1]
    /\ Len(context_for_answering) = 1
    /\ context_for_answering[1].kind = "context"
    /\ context_for_answering[1].url = reranked_urls[2]

\* the records of the generated file: its lines that are JSON objects
Records(idx) == { n \in 1..Len(idx) : idx[n].parses /\ idx[n].object }

NoUrlTwice(idx) ==
    \A m, n \in Records(idx) : idx[m].url = idx[n].url => m = n

\* C29: ingest never writes two records with the same url: every generated
\* file the run starts from has no url twice, and after any number of runs of
\* preprocess_jsonl no url occurs in two records of the generated file
C29_NoUrlWrittenTwice ==
    (\A f \in GeneratedFiles : NoUrlTwice(f)) /\ NoUrlTwice(index)

\* the messages sent that carry a piece of the response, in the order sent
PartsSent == SelectSeq(sent, LAMBDA m : m.head = "")

RECURSIVE Joined(_)
Joined(msgs) ==
    IF msgs = <<>> THEN <<>> ELSE Head(msgs).body \o Joined(Tail(msgs))

\* C30: a response text longer than 1950 characters is sent as pieces of at
\* least one and at most 1950 characters each which, joined in the order
\* sent, are at every moment the beginning of the text and at the end the
\* whole text; a response of at most 1950 characters is sent in one message
C30_PartsJoinToResponse ==
    /\ \A n \in 1..Len(PartsSent) :
          Len(PartsSent[n].body) \in 1..PART_LENGTH
    /\ IsPrefix(Joined(PartsSent), response_text)
    /\ reply_pc = "done" =>
          IF Len(response_text) > PART_LENGTH
          THEN /\ Joined(PartsSent) = response_text
               /\ \A n \in 1..Len(sent) : sent[n].head # "says"
          ELSE sent = << Message("says", response_text) >>

\* a text of more than two full pieces has been sent, the last piece shorter
C30_Witness ==
    /\ reply_pc = "done"
    /\ Len(PartsSent) = 3
    /\ Len(PartsSent[3].body) < PART_LENGTH
    /\ PartsSent[1].body # PartsSent[2].body

====
